---- MODULE Spec2Model ----
(***************************************************************************)
(* A model of the wepoll2 Poller (src/src/lib.rs): the registry maps, the  *)
(* socket operations add / modify / delete with the remove-and-drain       *)
(* protocol, wait and post, running against a model of the I/O completion  *)
(* port and of ProcessSocketNotifications.                                 *)
(*                                                                         *)
(* Event masks are sets of bit values (a u32 is the set of its set bits).  *)
(* The completion port is a FIFO sequence of completion entries.  Every    *)
(* entry carries, beside the three fields the program reads and writes     *)
(* (bytes, key, ov), a ghost field org that records where the completion   *)
(* was born; no operation of the program reads it.                         *)
(***************************************************************************)
EXTENDS Integers, Sequences, FiniteSets, TLC

\* ---------------------------------------------------------------- bounds
MaxQueue == 2
MaxFaults == 1
MaxBuf == 2
MaxPollers == 2
\* The widths that stand for the 32 bits of the kernel's millisecond timeout
\* and the 64 bits of a Duration's seconds.
TimeoutBits == 12
DurationBits == 24

\* ------------------------------------------------------ program constants
SOCK_NOTIFY_EVENT_IN == 1
SOCK_NOTIFY_EVENT_OUT == 2
SOCK_NOTIFY_EVENT_HANGUP == 4
SOCK_NOTIFY_EVENT_ERR == 64
SOCK_NOTIFY_EVENT_REMOVE == 128
ERROR_SUCCESS == 0
WAIT_IO_COMPLETION == 192
WAIT_TIMEOUT == 258
\* GetQueuedCompletionStatusEx returns a BOOL: nonzero when it dequeued.
BOOL_TRUE == 1
BOOL_FALSE == 0
NULL == 0

Sockets == {"s1", "s2"}
Keys == {1, 2}
Threads == {"t1"}
\* The threads that call the Poller where two of them do so at once.
Mutators == {"t1", "t2"}
\* The threads that only wait.
Waiters == {"w1", "w2"}
PollModes == {"Oneshot", "Level", "Edge", "EdgeOneshot"}
\* The modes and interests the callers of the model pass.
ModesIn == {"Level", "Oneshot"}
InterestBits == {{}, {SOCK_NOTIFY_EVENT_IN}}
PostBits == {{SOCK_NOTIFY_EVENT_IN}, {SOCK_NOTIFY_EVENT_IN, SOCK_NOTIFY_EVENT_REMOVE}}
Timeouts == {"none", "zero", "finite"}

\* The registrations requested of the Poller: every combination on the first
\* socket, one on the second.
Requests ==
    [s : {"s1"}, b : InterestBits, k : Keys, m : ModesIn]
        \cup [s : {"s2"}, b : {{SOCK_NOTIFY_EVENT_IN}}, k : {1}, m : {"Level"}]
\* How the kernel treats a request whose completion key differs from the key
\* of the socket's existing registration: it rejects the request, or it
\* identifies the registration by the socket alone (ENABLE / DISABLE then
\* overwrite the stored key, REMOVE answers under the stored key).
KeyPolicies == {"strict", "lenient"}

VARIABLES
    sources,    \* Poller.sources: socket -> key (a function on the registered sockets)
    kreg,       \* kernel: the registration of each socket
    krm,        \* kernel: REMOVE notifications accepted and not yet queued
    port,       \* kernel: the completion port's queue
    keyPolicy,  \* kernel: see KeyPolicies
    pc,         \* per thread: "idle", or "drain" inside update_and_wait_for_remove's loop
    cur,        \* per thread: the operation in progress
    last,       \* the last operation that returned, and what it returned
    expect,     \* ghost: completions born, less those wait dequeued, less those a
                \*        drain dequeued that carried the drain's target key
    faults,     \* kernel: the calls it has failed for reasons of its own
    waitables,  \* Poller.waitables: handle -> WaitableAttr (key, packet), with the
                \*        kernel's state of the packet
    call,       \* a conversion applied outside the Poller: its input and its value
    blocked,    \* per waiting thread: 0, or the length of the buffer of the wait
                \*        with no timeout it is blocked in
    pollers,    \* the Pollers alive: this one and those epoll_create made
    handles,    \* kernel: the handles this Poller holds open: its port, and the
                \*        number of its wait completion packets
    cond        \* per socket: whether its readiness condition holds (ready), and
                \*        whether it came to hold since the kernel last notified (fresh)

vars == <<sources, kreg, krm, port, keyPolicy, pc, cur, last, expect, faults,
          waitables, call, blocked, cond, pollers, handles>>

\* What the operations on sockets, wait and post never touch.
fixed == <<keyPolicy, waitables, call, blocked, cond, pollers, handles>>
\* What the operations on waitables never touch.
apart == <<sources, kreg, krm, keyPolicy, call, blocked, cond, pollers>>


\* ------------------------------------------------------------ pure helpers

Event(events, key) == [events |-> events, key |-> key]

\* Event::none
none(key) == Event({}, key)

\* Event::get_event
get_event(e, bit) == bit \in e.events

interest_to_filter(interest) ==
    {b \in {SOCK_NOTIFY_EVENT_IN, SOCK_NOTIFY_EVENT_OUT, SOCK_NOTIFY_EVENT_HANGUP} :
        get_event(interest, b)}

\* An interest_to_events that leaves the error bit out.
interest_to_events_no_err(interest) ==
    {b \in {SOCK_NOTIFY_EVENT_IN, SOCK_NOTIFY_EVENT_OUT, SOCK_NOTIFY_EVENT_HANGUP} :
        get_event(interest, b)}

interest_to_events(interest) ==
    {b \in {SOCK_NOTIFY_EVENT_IN, SOCK_NOTIFY_EVENT_OUT, SOCK_NOTIFY_EVENT_HANGUP,
            SOCK_NOTIFY_EVENT_ERR} : get_event(interest, b)}

\* A mode_to_flags that asks for a persistent level trigger whatever the mode.
mode_to_flags_level(mode) == {"PERSISTENT", "LEVEL"}

mode_to_flags(mode) ==
    CASE mode = "Oneshot" -> {"ONESHOT", "LEVEL"}
      [] mode = "Level" -> {"PERSISTENT", "LEVEL"}
      [] mode = "Edge" -> {"PERSISTENT", "EDGE"}
      [] mode = "EdgeOneshot" -> {"ONESHOT", "EDGE"}

\* A create_registration that enables whatever the filter.
create_registration_enable(socket, interest, mode, enable) ==
    [socket |-> socket,
     completionKey |-> interest.key,
     eventFilter |-> interest_to_filter(interest),
     operation |-> IF enable THEN "ENABLE" ELSE "REMOVE",
     triggerFlags |-> mode_to_flags(mode)]

create_registration(socket, interest, mode, enable) ==
    LET filter == interest_to_filter(interest) IN
    [socket |-> socket,
     completionKey |-> interest.key,
     eventFilter |-> filter,
     operation |-> IF enable
                   THEN (IF filter = {} THEN "DISABLE" ELSE "ENABLE")
                   ELSE "REMOVE",
     triggerFlags |-> mode_to_flags(mode)]

\* ------------------------------------------------------------ the kernel

NoReg == [st |-> "none", key |-> 0, enabled |-> FALSE, filter |-> {}, flags |-> {}]

\* ProcessSocketNotifications applied to one registration request: the
\* per-registration result and the socket's registration afterwards.  rm says
\* that a registration was removed, so that a REMOVE notification is owed.
KRegister(r, req, policy) ==
    IF req.operation = "REMOVE"
    THEN IF r.st = "none" \/ (policy = "strict" /\ r.key # req.completionKey)
         THEN [res |-> "err", reg |-> r, rm |-> FALSE]
         ELSE [res |-> "ok", reg |-> NoReg, rm |-> TRUE]
    ELSE IF r.st = "active" /\ policy = "strict" /\ r.key # req.completionKey
         THEN [res |-> "err", reg |-> r, rm |-> FALSE]
         ELSE [res |-> "ok",
               reg |-> [st |-> "active",
                        key |-> req.completionKey,
                        enabled |-> (req.operation = "ENABLE"),
                        filter |-> req.eventFilter,
                        flags |-> req.triggerFlags],
               rm |-> FALSE]

\* Ghost: where a completion was born (src: "post", a socket registration's
\* readiness notification "sock", a registration's REMOVE notification "rm"),
\* the bytes and key it was born with, and whether the registration that
\* produced it has since been retired: its removal reported to the caller as
\* done by a successful delete ("delete") or key-changing modify ("modify").
Org(src, s, bytes, key) ==
    [src |-> src, s |-> s, bytes |-> bytes, key |-> key, dead |-> "no"]

Entry(bytes, key, ov, org) == [bytes |-> bytes, key |-> key, ov |-> ov, org |-> org]

\* The REMOVE notification of a registration of s that carried key.
RemoveEntry(s, key) ==
    Entry({SOCK_NOTIFY_EVENT_REMOVE}, key, NULL,
          Org("rm", s, {SOCK_NOTIFY_EVENT_REMOVE}, key))

\* The readiness completions of socket s in the queue q.
Pending(q, s) == {i \in 1..Len(q) : q[i].org.src = "sock" /\ q[i].org.s = s}

\* PostQueuedCompletionStatus: a new packet at the tail of the queue.
KPost(q, e) == Append(q, e)

Min(a, b) == IF a < b THEN a ELSE b

Drop(q, k) == SubSeq(q, k + 1, Len(q))

Put(m, k, v) == [x \in DOMAIN m \cup {k} |-> IF x = k THEN v ELSE m[x]]

Del(m, k) == [x \in DOMAIN m \ {k} |-> m[x]]

\* Ghost: the registrations of s that produced the entries of q are retired.
MarkDead(o, s, by) ==
    IF o.src \in {"sock", "rm"} /\ o.s = s /\ o.dead = "no"
    THEN [o EXCEPT !.dead = by] ELSE o

Retire(q, s, by) == [i \in 1..Len(q) |-> [q[i] EXCEPT !.org = MarkDead(q[i].org, s, by)]]

RetireNotes(notes, s, by) == {[n EXCEPT !.org = MarkDead(n.org, s, by)] : n \in notes}

\* ------------------------------------------------- the Poller's private parts

\* Poller::post_raw: the queue after PostQueuedCompletionStatus(transferred, key, overlapped).
post_raw(q, transferred, key, overlapped, org) ==
    KPost(q, Entry(transferred, key, overlapped, org))

\* A repost that does not put the entry back.
repost_dropped(q, entry) == q

\* A repost that puts the entry back at the head of the queue.
repost_front(q, entry) == <<Entry(entry.bytes, entry.key, entry.ov, entry.org)>> \o q

\* A repost that forgets the bytes transferred.
repost_no_bytes(q, entry) == post_raw(q, {}, entry.key, entry.ov, entry.org)

\* The repost closure of update_and_wait_for_remove.
repost(q, entry) == post_raw(q, entry.bytes, entry.key, entry.ov, entry.org)

\* Poller::update_source: the kernel's answer to one registration request with
\* no dequeue.  fault: the kernel refuses for a reason of its own.
update_source(r, req, policy, fault) ==
    IF fault THEN [res |-> "err", reg |-> r, rm |-> FALSE]
    ELSE KRegister(r, req, policy)

\* What update_and_wait_for_remove does with a dequeued entry.
Examine(entry, key) ==
    IF entry.key = key
    THEN IF SOCK_NOTIFY_EVENT_REMOVE \in entry.bytes THEN "done" ELSE "discard"
    ELSE "repost"

\* Ghost bookkeeping for an entry a drain with target key dequeued: an entry
\* born under the target key may go.
Gone(e, key) == IF e.org.key = key THEN 1 ELSE 0

\* The first call of update_and_wait_for_remove (the REMOVE request together
\* with a dequeue of one entry) and the check of what it returned, up to the
\* loop.  sync: the kernel queues the REMOVE notification before the dequeue
\* of the same call; otherwise it owes it (krm) and queues it later.
\* status: "err" (the function returned an error), "done" (it returned Ok),
\* "loop" (it entered the loop).  born, gone: ghost, the completions the call
\* added to and took from those expected in the port.
FirstCall(s, req, key, sync, fault) ==
    LET r == kreg[s]
        out == IF fault = "reg" THEN [res |-> "err", reg |-> r, rm |-> FALSE]
               ELSE KRegister(r, req, keyPolicy)
        same == [status |-> "err", kreg |-> kreg, krm |-> krm, port |-> port,
                 gone |-> 0, born |-> 0]
    IN  IF fault = "call" THEN same
        ELSE IF out.res = "err"
        THEN IF port = <<>> THEN same
             ELSE IF fault = "post"
             THEN [same EXCEPT !.port = Tail(port)]
             ELSE [same EXCEPT !.port = repost(Tail(port), Head(port))]
        ELSE
          LET note == RemoveEntry(s, r.key)
              q1 == IF sync THEN KPost(port, note) ELSE port
              k1 == [kreg EXCEPT ![s] = out.reg]
              m1 == IF sync THEN krm ELSE krm \cup {note}
              base == [status |-> "loop", kreg |-> k1, krm |-> m1, port |-> q1,
                       gone |-> 0, born |-> IF sync THEN 1 ELSE 0]
          IN  IF q1 = <<>> THEN base
              ELSE LET e == Head(q1)
                       what == Examine(e, key)
                       took == [base EXCEPT !.port = Tail(q1), !.gone = Gone(e, key)]
                   IN  CASE what = "done" -> [took EXCEPT !.status = "done"]
                         [] what = "discard" -> took
                         [] OTHER ->
                              IF fault = "post"
                              THEN [took EXCEPT !.status = "err"]
                              ELSE [took EXCEPT !.port = repost(Tail(q1), e)]

Idle == [op |-> "none", sock |-> "-", key |-> 0, events |-> {}, ikey |-> 0,
         mode |-> "Level"]

\* What an operation returned: res, for wait the count n; and of the kernel
\* call behind it, whether one was made (kcall) and for wait the count the
\* kernel stored (krecv) and the kind of its outcome (kst).
Ret(op, res, n, krecv, kst, kcall) ==
    [op |-> op, res |-> res, n |-> n, krecv |-> krecv, kst |-> kst, kcall |-> kcall]

Res(out) == IF out.res = "ok" THEN "Ok" ELSE "Err"

\* ------------------------------------------------------------------ Init

NoCall == [f |-> "none", arg |-> none(0), val |-> none(0)]

\* Poller::new
InitPoller ==
    /\ sources = [x \in {} |-> 0]
    /\ kreg = [s \in Sockets |-> NoReg]
    /\ krm = {}
    /\ port = <<>>
    /\ keyPolicy \in KeyPolicies
    /\ pc = [t \in Mutators |-> "idle"]
    /\ cur = [t \in Mutators |-> Idle]
    /\ last = Ret("none", "Ok", 0, 0, "-", FALSE)
    /\ expect = 0
    /\ faults = 0
    /\ waitables = [x \in {} |-> 0]
    /\ blocked = [w \in Waiters |-> 0]
    /\ cond = [s \in Sockets |-> [ready |-> FALSE, fresh |-> FALSE]]
    /\ pollers = 1
    /\ handles = [port |-> TRUE, packets |-> 0]

Init == InitPoller /\ call = NoCall

\* Init with a kernel that checks the completion key of a request.
InitStrict == Init /\ keyPolicy = "strict"

\* ------------------------------------------------------------- operations

\* The kernel fails a call for a reason of its own at most MaxFaults times.
Fault(fault) ==
    /\ fault # "none" => faults < MaxFaults
    /\ faults' = IF fault = "none" THEN faults ELSE faults + 1

\* An add without the contains_key check.
add_unchecked(t, socket, interest, mode, fault) ==
    /\ pc[t] = "idle"
    /\ Fault(fault)
    /\ LET info == create_registration(socket, interest, mode, TRUE)
           out == update_source(kreg[socket], info, keyPolicy, fault = "reg")
       IN  /\ sources' = Put(sources, socket, interest.key)
           /\ kreg' = [kreg EXCEPT ![socket] = out.reg]
           /\ last' = Ret("add", Res(out), 0, 0, "-", TRUE)
    /\ UNCHANGED <<krm, port, fixed, pc, cur, expect>>

\* Poller::add
add(t, socket, interest, mode, fault) ==
    /\ pc[t] = "idle"
    /\ Fault(fault)
    /\ IF socket \in DOMAIN sources
       THEN /\ last' = Ret("add", "AlreadyExists", 0, 0, "-", FALSE)
            /\ UNCHANGED <<sources, kreg>>
       ELSE LET info == create_registration(socket, interest, mode, TRUE)
                out == update_source(kreg[socket], info, keyPolicy, fault = "reg")
            IN  /\ sources' = Put(sources, socket, interest.key)
                /\ kreg' = [kreg EXCEPT ![socket] = out.reg]
                /\ last' = Ret("add", Res(out), 0, 0, "-", TRUE)
    /\ UNCHANGED <<krm, port, fixed, pc, cur, expect>>

\* The end of a remove-and-drain that found its REMOVE completion, on the
\* kernel state (k1, m1, q1) it left: delete returns Ok; modify goes on to
\* install the new registration and returns what update_source returns.
Finish(op, socket, interest, mode, k1, m1, q1, fault) ==
    IF op = "delete"
    THEN /\ kreg' = k1
         /\ krm' = RetireNotes(m1, socket, "delete")
         /\ port' = Retire(q1, socket, "delete")
         /\ last' = Ret("delete", "Ok", 0, 0, "-", TRUE)
    ELSE LET info == create_registration(socket, interest, mode, TRUE)
             out == update_source(k1[socket], info, keyPolicy, fault = "reg2")
         IN  /\ kreg' = [k1 EXCEPT ![socket] = out.reg]
             /\ krm' = IF out.res = "ok" THEN RetireNotes(m1, socket, "modify") ELSE m1
             /\ port' = IF out.res = "ok" THEN Retire(q1, socket, "modify") ELSE q1
             /\ last' = Ret("modify", Res(out), 0, 0, "-", TRUE)

\* What follows the first call of update_and_wait_for_remove, for delete and
\* for a key-changing modify.
AfterFirst(t, op, socket, key, interest, mode, f, fault) ==
    /\ expect' = expect + f.born - f.gone
    /\ CASE f.status = "err" ->
              /\ kreg' = f.kreg
              /\ krm' = f.krm
              /\ port' = f.port
              /\ last' = Ret(op, "Err", 0, 0, "-", TRUE)
              /\ UNCHANGED <<pc, cur>>
         [] f.status = "done" ->
              /\ Finish(op, socket, interest, mode, f.kreg, f.krm, f.port, fault)
              /\ UNCHANGED <<pc, cur>>
         [] OTHER ->
              /\ kreg' = f.kreg
              /\ krm' = f.krm
              /\ port' = f.port
              /\ pc' = [pc EXCEPT ![t] = "drain"]
              /\ cur' = [cur EXCEPT ![t] =
                            [op |-> op, sock |-> socket, key |-> key,
                             events |-> interest.events, ikey |-> interest.key,
                             mode |-> mode]]
              /\ UNCHANGED last
    /\ UNCHANGED fixed

\* Poller::modify
modify(t, socket, interest, mode, sync, fault) ==
    /\ pc[t] = "idle"
    /\ Fault(fault)
    /\ IF socket \notin DOMAIN sources
       THEN /\ last' = Ret("modify", "NotFound", 0, 0, "-", FALSE)
            /\ UNCHANGED <<sources, kreg, krm, port, fixed, pc, cur, expect>>
       ELSE LET oldkey == sources[socket] IN
            IF oldkey # interest.key
            THEN LET info == create_registration(socket, none(oldkey), "Oneshot", FALSE)
                     f == FirstCall(socket, info, oldkey, sync, fault)
                 IN  /\ AfterFirst(t, "modify", socket, oldkey, interest, mode, f, fault)
                     /\ UNCHANGED sources
            ELSE LET info == create_registration(socket, interest, mode, TRUE)
                     out == update_source(kreg[socket], info, keyPolicy, fault = "reg")
                 IN  /\ kreg' = [kreg EXCEPT ![socket] = out.reg]
                     /\ last' = Ret("modify", Res(out), 0, 0, "-", TRUE)
                     /\ UNCHANGED <<sources, krm, port, fixed, pc, cur, expect>>

\* A delete that goes on to the kernel with key 0 when the socket is not
\* in sources.
delete_unguarded(t, socket, sync, fault) ==
    /\ pc[t] = "idle"
    /\ Fault(fault)
    /\ LET key == IF socket \in DOMAIN sources THEN sources[socket] ELSE 0
           info == create_registration(socket, none(key), "Oneshot", FALSE)
           f == FirstCall(socket, info, key, sync, fault)
       IN  /\ sources' = Del(sources, socket)
           /\ AfterFirst(t, "delete", socket, key, none(0), "Level", f, fault)

\* Poller::delete
delete(t, socket, sync, fault) ==
    /\ pc[t] = "idle"
    /\ Fault(fault)
    /\ IF socket \notin DOMAIN sources
       THEN /\ last' = Ret("delete", "NotFound", 0, 0, "-", FALSE)
            /\ UNCHANGED <<sources, kreg, krm, port, fixed, pc, cur, expect>>
       ELSE LET key == sources[socket]
                info == create_registration(socket, none(key), "Oneshot", FALSE)
                f == FirstCall(socket, info, key, sync, fault)
            IN  /\ sources' = Del(sources, socket)
                /\ AfterFirst(t, "delete", socket, key, none(0), "Level", f, fault)

\* One turn of the loop of update_and_wait_for_remove: a dequeue of one entry
\* with a zero timeout, and the check of what it returned.
update_and_wait_for_remove(t, fault) ==
    /\ pc[t] = "drain"
    /\ Fault(fault)
    /\ LET c == cur[t]
           back == /\ pc' = [pc EXCEPT ![t] = "idle"]
                   /\ cur' = [cur EXCEPT ![t] = Idle]
       IN
       IF fault = "call"
       THEN /\ last' = Ret(c.op, "Err", 0, 0, "-", TRUE)
            /\ back
            /\ UNCHANGED <<kreg, krm, port, expect>>
       ELSE IF port = <<>>
       THEN UNCHANGED <<kreg, krm, port, expect, last, pc, cur>>
       ELSE LET e == Head(port)
                what == Examine(e, c.key)
            IN  /\ expect' = expect - Gone(e, c.key)
                /\ CASE what = "done" ->
                          /\ Finish(c.op, c.sock, Event(c.events, c.ikey), c.mode,
                                    kreg, krm, Tail(port), fault)
                          /\ back
                     [] what = "discard" ->
                          /\ port' = Tail(port)
                          /\ UNCHANGED <<kreg, krm, last, pc, cur>>
                     [] OTHER ->
                          IF fault = "post"
                          THEN /\ port' = Tail(port)
                               /\ last' = Ret(c.op, "Err", 0, 0, "-", TRUE)
                               /\ back
                               /\ UNCHANGED <<kreg, krm>>
                          ELSE /\ port' = repost(Tail(port), e)
                               /\ UNCHANGED <<kreg, krm, last, pc, cur>>
    /\ UNCHANGED <<sources, fixed>>

\* GetQueuedCompletionStatusEx(port, entries, n, &received, timeout, alertable):
\* the BOOL it returns, the count it stores, the kind of outcome, and whether
\* the call returns at all (an indefinite wait on an empty port does not).
GetQueuedCompletionStatusEx(q, n, timeout, alertable, fault) ==
    IF fault = "call"
    THEN [ret |-> BOOL_FALSE, received |-> 0, kst |-> "other", returns |-> TRUE]
    ELSE IF q # <<>> /\ n >= 1
    THEN [ret |-> BOOL_TRUE, received |-> Min(n, Len(q)), kst |-> "dequeued",
          returns |-> TRUE]
    ELSE IF timeout # "none"
    THEN [ret |-> BOOL_FALSE, received |-> 0, kst |-> "timeout", returns |-> TRUE]
    ELSE [ret |-> BOOL_FALSE, received |-> 0, kst |-> "apc", returns |-> alertable]

\* The match of Poller::wait on the value GetQueuedCompletionStatusEx returned.
wait_result(res, received) ==
    IF res = ERROR_SUCCESS THEN [res |-> "Ok", n |-> received]
    ELSE IF res \in {WAIT_TIMEOUT, WAIT_IO_COMPLETION} THEN [res |-> "Ok", n |-> 0]
    ELSE [res |-> "Err", n |-> 0]

\* Poller::wait
wait(t, n, timeout, alertable, fault) ==
    /\ pc[t] = "idle"
    /\ Fault(fault)
    /\ LET k == GetQueuedCompletionStatusEx(port, n, timeout, alertable, fault)
           r == wait_result(k.ret, k.received)
       IN  /\ k.returns
           /\ port' = Drop(port, k.received)
           /\ expect' = expect - k.received
           /\ last' = Ret("wait", r.res, r.n, k.received, k.kst, TRUE)
    /\ UNCHANGED <<sources, kreg, krm, fixed, pc, cur>>

\* A post that reports success without queueing anything.
post_nothing(t, event, fault) ==
    /\ pc[t] = "idle"
    /\ Fault(fault)
    /\ Len(port) < MaxQueue
    /\ last' = Ret("post", IF fault = "post" THEN "Err" ELSE "Ok", 0, 0, "-", TRUE)
    /\ UNCHANGED <<sources, kreg, krm, port, expect, fixed, pc, cur>>

\* Poller::post
post(t, event, fault) ==
    /\ pc[t] = "idle"
    /\ Fault(fault)
    /\ Len(port) < MaxQueue
    /\ LET b == interest_to_events(event)
           org == Org("post", "-", b, event.key)
       IN  IF fault = "post"
           THEN /\ last' = Ret("post", "Err", 0, 0, "-", TRUE)
                /\ UNCHANGED <<port, expect>>
           ELSE /\ port' = post_raw(port, b, event.key, NULL, org)
                /\ expect' = expect + 1
                /\ last' = Ret("post", "Ok", 0, 0, "-", TRUE)
    /\ UNCHANGED <<sources, kreg, krm, fixed, pc, cur>>

\* ----------------------------------------------------- the kernel's own steps

\* An enabled registration's condition holds: the kernel queues a readiness
\* notification under the registration's key; a ONESHOT registration is
\* disabled by it.
KernelNotify(s) ==
    /\ kreg[s].st = "active"
    /\ kreg[s].enabled
    /\ Len(port) < MaxQueue
    /\ LET r == kreg[s]
           org == Org("sock", s, r.filter, r.key)
       IN  /\ port' = KPost(port, Entry(r.filter, r.key, NULL, org))
           /\ kreg' = [kreg EXCEPT ![s].enabled = ("ONESHOT" \notin r.flags)]
    /\ expect' = expect + 1
    /\ UNCHANGED <<sources, krm, fixed, pc, cur, last, faults>>

\* The kernel queues a REMOVE notification it owes.
KernelPostRemove ==
    \E note \in krm :
        /\ krm' = krm \ {note}
        /\ port' = KPost(port, note)
        /\ expect' = expect + 1
        /\ UNCHANGED <<sources, kreg, fixed, pc, cur, last, faults>>

\* -------------------------------------------------------- the specifications

Next ==
    \/ \E t \in Threads, r \in Requests : add(t, r.s, Event(r.b, r.k), r.m, "none")
    \/ \E t \in Threads, r \in Requests, sync \in BOOLEAN :
           modify(t, r.s, Event(r.b, r.k), r.m, sync, "none")
    \/ \E t \in Threads, s \in Sockets, sync \in BOOLEAN : delete(t, s, sync, "none")
    \/ \E t \in Threads : update_and_wait_for_remove(t, "none")
    \/ \E t \in Threads, n \in 1..MaxBuf, to \in Timeouts, a \in BOOLEAN :
           wait(t, n, to, a, "none")
    \/ \E t \in Threads, b \in PostBits, k \in Keys : post(t, Event(b, k), "none")
    \/ \E s \in Sockets : KernelNotify(s)
    \/ KernelPostRemove

Spec == Init /\ [][Next]_vars

\* Spec with the thread inside a remove-and-drain running on, and the kernel
\* queueing the REMOVE notifications it owes.
SpecDrain ==
    /\ Init
    /\ [][Next]_vars
    /\ WF_vars(\E t \in Threads : update_and_wait_for_remove(t, "none"))
    /\ WF_vars(KernelPostRemove)

\* The operations on one socket in Level mode with the kernel failing a call for a reason
\* of its own: the registration request ("reg", and "reg2" for the one that
\* follows a drain), the whole ProcessSocketNotifications or
\* GetQueuedCompletionStatusEx call ("call"), PostQueuedCompletionStatus ("post").
RequestsFault == {r \in Requests : r.s = "s1" /\ r.m = "Level"}

NextFault ==
    \/ \E t \in Threads, r \in RequestsFault, f \in {"none", "reg"} :
           add(t, r.s, Event(r.b, r.k), r.m, f)
    \/ \E t \in Threads, r \in RequestsFault, sync \in BOOLEAN,
          f \in {"none", "reg", "call", "post", "reg2"} :
           modify(t, r.s, Event(r.b, r.k), r.m, sync, f)
    \/ \E t \in Threads, sync \in BOOLEAN, f \in {"none", "reg", "call", "post"} :
           delete(t, "s1", sync, f)
    \/ \E t \in Threads, f \in {"none", "call", "post"} : update_and_wait_for_remove(t, f)
    \/ \E t \in Threads, n \in 1..MaxBuf, to \in Timeouts, a \in BOOLEAN,
          f \in {"none", "call"} :
           wait(t, n, to, a, f)
    \/ \E t \in Threads, b \in PostBits, k \in Keys, f \in {"none", "post"} :
           post(t, Event(b, k), f)
    \/ KernelNotify("s1")
    \/ KernelPostRemove

SpecFault == Init /\ [][NextFault]_vars

\* The operations on one socket with every kind of interest: none, one the
\* event filter knows, the error bit alone, and both.
RegistrationInterests ==
    {Event({}, 1), Event({SOCK_NOTIFY_EVENT_IN}, 1),
     Event({SOCK_NOTIFY_EVENT_ERR}, 2),
     Event({SOCK_NOTIFY_EVENT_HANGUP, SOCK_NOTIFY_EVENT_ERR}, 2)}

NextRegistration ==
    \/ \E t \in Threads, e \in RegistrationInterests : add(t, "s1", e, "Level", "none")
    \/ \E t \in Threads, e \in RegistrationInterests, sync \in BOOLEAN :
           modify(t, "s1", e, "Level", sync, "none")
    \/ \E t \in Threads, sync \in BOOLEAN : delete(t, "s1", sync, "none")
    \/ \E t \in Threads : update_and_wait_for_remove(t, "none")
    \/ \E t \in Threads : post(t, Event({SOCK_NOTIFY_EVENT_OUT}, 1), "none")
    \/ KernelNotify("s1")
    \/ KernelPostRemove

SpecRegistration == Init /\ [][NextRegistration]_vars

\* The read lock of sources: a modify holds it until it returns, its drain
\* included, so that no add and no delete takes the write lock meanwhile;
\* another modify shares it.
sources_read_locked == \E t \in Mutators : pc[t] = "drain" /\ cur[t].op = "modify"

\* The new key each thread asks for.
ModifyKey(t) == IF t = "t1" THEN 2 ELSE 3

\* Two threads that modify one socket, added under key 1, each to a new key of
\* its own. A turn of the drain's loop, dequeue and repost, is one step.
NextModify2 ==
    \/ ~sources_read_locked /\ add("t1", "s1", Event({SOCK_NOTIFY_EVENT_IN}, 1), "Level", "none")
    \/ \E t \in Mutators, sync \in BOOLEAN :
           modify(t, "s1", Event({SOCK_NOTIFY_EVENT_IN}, ModifyKey(t)), "Level", sync, "none")
    \/ \E t \in Mutators : update_and_wait_for_remove(t, "none")
    \/ KernelNotify("s1")
    \/ KernelPostRemove

\* Each thread inside a drain keeps running, and the kernel queues the REMOVE
\* notifications it owes.
SpecModify2 ==
    /\ Init
    /\ [][NextModify2]_vars
    /\ \A t \in Mutators : WF_vars(update_and_wait_for_remove(t, "none"))
    /\ WF_vars(KernelPostRemove)

\* The key each socket is added under.
SocketKey(s) == IF s = "s1" THEN 1 ELSE 2

\* Two threads that add two sockets under different keys and then delete
\* them, with completions posted under a third key. delete gives the write
\* lock of sources back before it drains, so the two drains run at once; no
\* socket is added while a drain runs. A turn of the drain's loop, dequeue and
\* repost, is one step.
NextDelete2 ==
    \/ \E t \in Mutators, s \in Sockets :
           /\ \A u \in Mutators : pc[u] = "idle"
           /\ add(t, s, Event({}, SocketKey(s)), "Level", "none")
    \/ \E t \in Mutators, s \in Sockets, sync \in BOOLEAN : delete(t, s, sync, "none")
    \/ \E t \in Mutators : update_and_wait_for_remove(t, "none")
    \/ \E t \in Mutators : Len(port) < MaxQueue /\ post(t, Event({SOCK_NOTIFY_EVENT_IN}, 3), "none")
    \/ KernelPostRemove

\* Each thread inside a drain keeps running, and the kernel queues the REMOVE
\* notifications it owes.
SpecDelete2 ==
    /\ InitStrict
    /\ [][NextDelete2]_vars
    /\ \A t \in Mutators : WF_vars(update_and_wait_for_remove(t, "none"))
    /\ WF_vars(KernelPostRemove)

\* The remove-and-drain of one socket with the kernel refusing the REMOVE
\* request or failing the whole ProcessSocketNotifications call.
NextRemoveFault ==
    \/ \E t \in Threads, r \in RequestsFault : add(t, r.s, Event(r.b, r.k), r.m, "none")
    \/ \E t \in Threads, r \in RequestsFault, sync \in BOOLEAN, f \in {"none", "reg", "call"} :
           modify(t, r.s, Event(r.b, r.k), r.m, sync, f)
    \/ \E t \in Threads, sync \in BOOLEAN, f \in {"none", "reg", "call"} :
           delete(t, "s1", sync, f)
    \/ \E t \in Threads : update_and_wait_for_remove(t, "none")
    \/ \E t \in Threads, k \in Keys : post(t, Event({SOCK_NOTIFY_EVENT_OUT}, k), "none")
    \/ KernelNotify("s1")
    \/ KernelPostRemove

SpecRemoveFault == InitStrict /\ [][NextRemoveFault]_vars

\* ------------------------------------------------------------- properties

\* ---------------------------------------------------------------- waitables

Handles == {"h1"}
\* The interests registered for a waitable handle: readiness bits.
WaitableBits == {{SOCK_NOTIFY_EVENT_IN}, {SOCK_NOTIFY_EVENT_IN, SOCK_NOTIFY_EVENT_ERR}}
\* Names for the wait completion packets created for one handle: one more than
\* the port can hold of their completions.
PacketIds == 1..(MaxQueue + 1)

\* The completions in q that packet pk of handle h queued.
Fired(q, h, pk) ==
    {i \in 1..Len(q) : q[i].org.src = "wait" /\ q[i].org.s = h /\ q[i].org.pk = pk}

\* The completions in q of any packet of handle h.
InFlight(q, h) == {i \in 1..Len(q) : q[i].org.src = "wait" /\ q[i].org.s = h}

\* NtCreateWaitCompletionPacket: a packet not associated with anything, under
\* a name no completion in flight carries.
NewPacket(q, h) ==
    [pk |-> CHOOSE id \in PacketIds :
                /\ id \notin {q[i].org.pk : i \in InFlight(q, h)}
                /\ \A other \in PacketIds :
                       other \notin {q[i].org.pk : i \in InFlight(q, h)} => id <= other,
     st |-> "free", key |-> 0, info |-> {}]

\* The kernel's one association per packet: a packet is in use while it waits
\* for its handle and while the completion it queued is still in the port.
InUse(p, q, h) == p.st = "waiting" \/ (p.st = "fired" /\ Fired(q, h, p.pk) # {})

\* NtAssociateWaitCompletionPacket
NtAssociateWaitCompletionPacket(p, q, h, key, info, fault) ==
    IF fault THEN [status |-> "error", p |-> p]
    ELSE IF InUse(p, q, h) THEN [status |-> "AlreadyAssociated", p |-> p]
    ELSE [status |-> "STATUS_SUCCESS",
          p |-> [p EXCEPT !.st = "waiting", !.key = key, !.info = info]]

\* NtCancelWaitCompletionPacket with RemoveSignaledPacket = 0
NtCancelWaitCompletionPacket(p, q, h, fault) ==
    IF fault THEN [status |-> "error", p |-> p]
    ELSE IF p.st = "waiting" THEN [status |-> "STATUS_SUCCESS", p |-> [p EXCEPT !.st = "free"]]
    ELSE IF InUse(p, q, h) THEN [status |-> "STATUS_PENDING", p |-> p]
    ELSE [status |-> "STATUS_CANCELLED", p |-> [p EXCEPT !.st = "free"]]

\* WaitCompletionPacket::associate
associate(p, q, h, key, info, fault) ==
    LET k == NtAssociateWaitCompletionPacket(p, q, h, key, info, fault)
    IN  [res |-> IF k.status = "STATUS_SUCCESS" THEN "Ok" ELSE "Err",
         status |-> k.status, p |-> k.p]

\* WaitCompletionPacket::cancel: Ok(true), Ok(false) or Err
cancel(p, q, h, fault) ==
    LET k == NtCancelWaitCompletionPacket(p, q, h, fault)
    IN  [res |-> IF k.status \in {"STATUS_SUCCESS", "STATUS_CANCELLED", "STATUS_PENDING"}
                 THEN "Ok" ELSE "Err",
         cancelled |-> k.status \in {"STATUS_SUCCESS", "STATUS_CANCELLED"},
         status |-> k.status, p |-> k.p]

\* WaitCompletionPacket::new: one more packet handle is open.
OpenPacket(hs) == [hs EXCEPT !.packets = @ + 1]

\* A drop that closes nothing.
CloseHandle_forgotten(hs) == hs

\* Drop for OwnedHandle, of a packet: CloseHandle.
CloseHandle(hs) == [hs EXCEPT !.packets = @ - 1]

\* A WaitableAttr that takes its key from the interest it is made with.
WaitableAttr_rekeyed(key, packet, interest, by) ==
    [key |-> interest.key, packet |-> packet, interest |-> interest, by |-> by]

\* WaitableAttr, with the interest of the call that associated the packet and
\* the operation that made it (ghosts).
WaitableAttr(key, packet, interest, by) ==
    [key |-> key, packet |-> packet, interest |-> interest, by |-> by]

\* An add_waitable that passes the socket filter of the interest as info.
add_waitable_filter(t, handle, interest, fault) ==
    /\ pc[t] = "idle"
    /\ Fault(fault)
    /\ IF handle \in DOMAIN waitables
       THEN /\ last' = Ret("add_waitable", "AlreadyExists", 0, 0, "-", FALSE)
            /\ UNCHANGED <<waitables, handles>>
       ELSE IF fault = "new"
       THEN /\ last' = Ret("add_waitable", "Err", 0, 0, "-", TRUE)
            /\ UNCHANGED <<waitables, handles>>
       ELSE LET a == associate(NewPacket(port, handle), port, handle, interest.key,
                               interest_to_filter(interest), fault = "assoc")
            IN  /\ last' = Ret("add_waitable", a.res, 0, 0, a.status, TRUE)
                /\ IF a.res = "Ok"
                   THEN /\ waitables' = Put(waitables, handle,
                                            WaitableAttr(interest.key, a.p, interest, "add"))
                        /\ handles' = OpenPacket(handles)
                   ELSE /\ UNCHANGED waitables
                        /\ handles' = CloseHandle(OpenPacket(handles))
    /\ UNCHANGED <<apart, port, pc, cur, expect>>

\* Poller::add_waitable
add_waitable(t, handle, interest, fault) ==
    /\ pc[t] = "idle"
    /\ Fault(fault)
    /\ IF handle \in DOMAIN waitables
       THEN /\ last' = Ret("add_waitable", "AlreadyExists", 0, 0, "-", FALSE)
            /\ UNCHANGED <<waitables, handles>>
       ELSE IF fault = "new"
       THEN /\ last' = Ret("add_waitable", "Err", 0, 0, "-", TRUE)
            /\ UNCHANGED <<waitables, handles>>
       ELSE LET a == associate(NewPacket(port, handle), port, handle, interest.key,
                               interest_to_events(interest), fault = "assoc")
            IN  /\ last' = Ret("add_waitable", a.res, 0, 0, a.status, TRUE)
                /\ IF a.res = "Ok"
                   THEN /\ waitables' = Put(waitables, handle,
                                            WaitableAttr(interest.key, a.p, interest, "add"))
                        /\ handles' = OpenPacket(handles)
                   ELSE /\ UNCHANGED waitables
                        /\ handles' = CloseHandle(OpenPacket(handles))
    /\ UNCHANGED <<apart, port, pc, cur, expect>>

\* A modify_waitable that keeps the packet whatever cancel answered.
modify_waitable_reuse(t, waitable, interest, fault) ==
    /\ pc[t] = "idle"
    /\ Fault(fault)
    /\ IF waitable \notin DOMAIN waitables
       THEN /\ last' = Ret("modify_waitable", "NotFound", 0, 0, "-", FALSE)
            /\ UNCHANGED <<waitables, handles>>
       ELSE LET w == waitables[waitable]
                c == cancel(w.packet, port, waitable, fault = "cancel")
            IN  IF c.res = "Err"
                THEN /\ last' = Ret("modify_waitable", "Err", 0, 0, c.status, TRUE)
                     /\ UNCHANGED <<waitables, handles>>
                ELSE LET a == associate(c.p, port, waitable, w.key,
                                        interest_to_events(interest), fault = "assoc")
                     IN  /\ last' = Ret("modify_waitable", a.res, 0, 0, a.status, TRUE)
                         /\ UNCHANGED handles
                         /\ waitables' =
                                [waitables EXCEPT ![waitable] =
                                    IF a.res = "Ok"
                                    THEN WaitableAttr(w.key, a.p, interest, "modify")
                                    ELSE [w EXCEPT !.packet = a.p]]
    /\ UNCHANGED <<apart, port, pc, cur, expect>>

\* Poller::modify_waitable. The packet is associated under the key the entry
\* holds; last.kst keeps what the cancel answered.
modify_waitable(t, waitable, interest, fault) ==
    /\ pc[t] = "idle"
    /\ Fault(fault)
    /\ IF waitable \notin DOMAIN waitables
       THEN /\ last' = Ret("modify_waitable", "NotFound", 0, 0, "-", FALSE)
            /\ UNCHANGED <<waitables, handles>>
       ELSE LET w == waitables[waitable]
                c == cancel(w.packet, port, waitable, fault = "cancel")
            IN  IF c.res = "Err"
                THEN /\ last' = Ret("modify_waitable", "Err", 0, 0, c.status, TRUE)
                     /\ UNCHANGED <<waitables, handles>>
                ELSE IF ~c.cancelled /\ fault = "new"
                THEN /\ last' = Ret("modify_waitable", "Err", 0, 0, c.status, TRUE)
                     /\ UNCHANGED <<waitables, handles>>
                ELSE LET p1 == IF c.cancelled THEN c.p ELSE NewPacket(port, waitable)
                         a == associate(p1, port, waitable, w.key,
                                        interest_to_events(interest), fault = "assoc")
                     IN  /\ last' = Ret("modify_waitable", a.res, 0, 0,
                                        IF a.res = "Ok" THEN c.status ELSE a.status, TRUE)
                         /\ handles' = IF c.cancelled THEN handles
                                       ELSE CloseHandle(OpenPacket(handles))
                         /\ waitables' =
                                [waitables EXCEPT ![waitable] =
                                    IF a.res = "Ok"
                                    THEN WaitableAttr(w.key, a.p, interest, "modify")
                                    ELSE [w EXCEPT !.packet = a.p]]
    /\ UNCHANGED <<apart, port, pc, cur, expect>>

\* A delete_waitable that cancels first and gives up when the cancel answers
\* Pending.
delete_waitable_cancelled(t, waitable, fault) ==
    /\ pc[t] = "idle"
    /\ Fault(fault)
    /\ IF waitable \notin DOMAIN waitables
       THEN /\ last' = Ret("delete_waitable", "NotFound", 0, 0, "-", FALSE)
            /\ UNCHANGED <<waitables, handles>>
       ELSE LET c == cancel(waitables[waitable].packet, port, waitable, fault = "cancel")
            IN  IF c.res = "Ok" /\ c.cancelled
                THEN /\ waitables' = Del(waitables, waitable)
                     /\ handles' = CloseHandle(handles)
                     /\ last' = Ret("delete_waitable", "Ok", 0, 0, c.status, TRUE)
                ELSE /\ UNCHANGED <<waitables, handles>>
                     /\ last' = Ret("delete_waitable", "Err", 0, 0, c.status, TRUE)
    /\ UNCHANGED <<apart, port, pc, cur, expect>>

\* Poller::delete_waitable: the entry is removed before the cancel.
delete_waitable(t, waitable, fault) ==
    /\ pc[t] = "idle"
    /\ Fault(fault)
    /\ IF waitable \notin DOMAIN waitables
       THEN /\ last' = Ret("delete_waitable", "NotFound", 0, 0, "-", FALSE)
            /\ UNCHANGED <<waitables, handles>>
       ELSE LET c == cancel(waitables[waitable].packet, port, waitable, fault = "cancel")
            IN  /\ waitables' = Del(waitables, waitable)
                /\ handles' = CloseHandle(handles)
                /\ last' = Ret("delete_waitable", c.res, 0, 0, c.status, TRUE)
    /\ UNCHANGED <<apart, port, pc, cur, expect>>

\* The handle becomes signaled: the kernel queues the completion of the packet
\* that waits for it, under the key and with the info of its association.
KernelSignal(h) ==
    /\ h \in DOMAIN waitables
    /\ waitables[h].packet.st = "waiting"
    /\ Len(port) < MaxQueue
    /\ LET p == waitables[h].packet
           org == Org("wait", h, p.info, p.key) @@ [pk |-> p.pk]
       IN  /\ port' = KPost(port, Entry(p.info, p.key, NULL, org))
           /\ waitables' = [waitables EXCEPT ![h].packet.st = "fired"]
    /\ expect' = expect + 1
    /\ UNCHANGED <<apart, handles, pc, cur, last, faults>>

\* The operations on one waitable handle, wait and post.
NextWaitable ==
    \/ \E t \in Threads, h \in Handles, b \in WaitableBits, k \in Keys :
           add_waitable(t, h, Event(b, k), "none")
    \/ \E t \in Threads, h \in Handles, b \in WaitableBits, k \in Keys :
           modify_waitable(t, h, Event(b, k), "none")
    \/ \E t \in Threads, h \in Handles : delete_waitable(t, h, "none")
    \/ \E h \in Handles : KernelSignal(h)
    \/ \E t \in Threads, n \in 1..MaxBuf : wait(t, n, "zero", FALSE, "none")
    \/ \E t \in Threads : post(t, Event({SOCK_NOTIFY_EVENT_OUT}, 1), "none")

SpecWaitable == InitStrict /\ [][NextWaitable]_vars

\* The operations on one waitable handle under one key, with the kernel
\* failing a call for a reason of its own: the creation of a packet ("new"),
\* its association ("assoc"), its cancellation ("cancel").
NextWaitableFault ==
    \/ \E t \in Threads, h \in Handles, b \in WaitableBits,
          f \in {"none", "new", "assoc"} : add_waitable(t, h, Event(b, 1), f)
    \/ \E t \in Threads, h \in Handles, b \in WaitableBits,
          f \in {"none", "cancel", "new", "assoc"} : modify_waitable(t, h, Event(b, 1), f)
    \/ \E t \in Threads, h \in Handles, f \in {"none", "cancel"} : delete_waitable(t, h, f)
    \/ \E h \in Handles : KernelSignal(h)
    \/ \E t \in Threads, n \in 1..MaxBuf : wait(t, n, "zero", FALSE, "none")

SpecWaitableFault == InitStrict /\ [][NextWaitableFault]_vars

\* The Poller goes out of scope: its fields are dropped, every WaitableAttr
\* with its packet, and the port.
drop_poller ==
    /\ handles.port
    /\ \A t \in Threads : pc[t] = "idle"
    /\ sources' = [x \in {} |-> 0]
    /\ waitables' = [x \in {} |-> 0]
    /\ handles' = [port |-> FALSE,
                   packets |-> handles.packets - Cardinality(DOMAIN waitables)]
    /\ UNCHANGED <<kreg, krm, port, keyPolicy, pc, cur, last, expect, faults, call,
                   blocked, cond, pollers>>

\* The operations on one waitable handle, with the kernel failing calls, for
\* as long as the Poller lives.
NextOwnership ==
    \/ \E t \in Threads, h \in Handles, b \in WaitableBits,
          f \in {"none", "new", "assoc"} :
           handles.port /\ add_waitable(t, h, Event(b, 1), f)
    \/ \E t \in Threads, h \in Handles, b \in WaitableBits,
          f \in {"none", "cancel", "new", "assoc"} :
           handles.port /\ modify_waitable(t, h, Event(b, 1), f)
    \/ \E t \in Threads, h \in Handles, f \in {"none", "cancel"} :
           handles.port /\ delete_waitable(t, h, f)
    \/ \E h \in Handles : handles.port /\ KernelSignal(h)
    \/ \E t \in Threads, n \in 1..MaxBuf : handles.port /\ wait(t, n, "zero", FALSE, "none")
    \/ drop_poller

SpecOwnership == InitStrict /\ [][NextOwnership]_vars


\* ------------------------------------------------------------ the C interface

EPOLLIN == 1
EPOLLOUT == 2
EPOLLET == 256
EPOLLONESHOT == 512
EPOLL_CTL_ADD == 1
EPOLL_CTL_MOD == 2
EPOLL_CTL_DEL == 3
STATIC_ENTRIES_COUNT == 256
ERROR_INVALID_PARAMETER == 87
ERROR_NOT_ENOUGH_MEMORY == 8
\* The null event pointer.
NullEvent == [events |-> {}, key |-> NULL, null |-> TRUE]
\* A Poller pointer that is not null.
ThePoller == 1

\* The events epoll_ctl is called with for a socket: readiness bits with every
\* combination of the two trigger bits, under one key.
CtlEvents ==
    {Event(b \cup m, 1) : b \in {{EPOLLIN}, {EPOLLIN, EPOLLOUT}},
                          m \in SUBSET {EPOLLET, EPOLLONESHOT}}
\* The capacities epoll_wait is called with: below, at and above the number of
\* completions the port can hold, and above STATIC_ENTRIES_COUNT.
Capacities == 0..MaxBuf \cup {STATIC_ENTRIES_COUNT + 1}

\* An interest_mode that reads the two trigger bits the other way round.
interest_mode_swapped(event) ==
    [interest |-> event,
     mode |-> CASE EPOLLONESHOT \notin event.events /\ EPOLLET \notin event.events -> "Level"
                [] EPOLLONESHOT \notin event.events /\ EPOLLET \in event.events -> "Oneshot"
                [] EPOLLONESHOT \in event.events /\ EPOLLET \notin event.events -> "Edge"
                [] EPOLLONESHOT \in event.events /\ EPOLLET \in event.events -> "EdgeOneshot"]

\* ffi::interest_mode
interest_mode(event) ==
    [interest |-> event,
     mode |-> CASE EPOLLET \notin event.events /\ EPOLLONESHOT \notin event.events -> "Level"
                [] EPOLLET \notin event.events /\ EPOLLONESHOT \in event.events -> "Oneshot"
                [] EPOLLET \in event.events /\ EPOLLONESHOT \notin event.events -> "Edge"
                [] EPOLLET \in event.events /\ EPOLLONESHOT \in event.events -> "EdgeOneshot"]

\* What a call of the C interface that failed before reaching the Poller left
\* behind: the value returned (-1 for a c_int, 0 for a null pointer) and the
\* thread's last-error code.
AbiErr(op, ret, err) ==
    Ret(op, "Err", ret, 0, "-", FALSE) @@ [err |-> err]

\* ffi::epoll_ctl_socket. NullEvent is the null event pointer, which
\* interest_mode's check_pointer refuses.
epoll_ctl_socket(t, op, socket, event) ==
    CASE op \in {EPOLL_CTL_ADD, EPOLL_CTL_MOD} /\ event = NullEvent ->
             /\ pc[t] = "idle"
             /\ last' = AbiErr("epoll_ctl", 0 - 1, ERROR_INVALID_PARAMETER)
             /\ UNCHANGED <<sources, kreg, krm, port, fixed, pc, cur, expect, faults>>
      [] op = EPOLL_CTL_ADD /\ event # NullEvent ->
             add(t, socket, interest_mode(event).interest, interest_mode(event).mode, "none")
      [] op = EPOLL_CTL_MOD /\ event # NullEvent ->
             \E sync \in BOOLEAN :
                 modify(t, socket, interest_mode(event).interest, interest_mode(event).mode,
                        sync, "none")
      [] op = EPOLL_CTL_DEL -> \E sync \in BOOLEAN : delete(t, socket, sync, "none")
      [] OTHER -> /\ pc[t] = "idle"
                  /\ last' = AbiErr("epoll_ctl", 0 - 1, ERROR_INVALID_PARAMETER)
                  /\ UNCHANGED <<sources, kreg, krm, port, fixed, pc, cur, expect, faults>>

\* ffi::epoll_ctl_waitable
epoll_ctl_waitable(t, op, handle, event) ==
    CASE op \in {EPOLL_CTL_ADD, EPOLL_CTL_MOD} /\ event = NullEvent ->
             /\ pc[t] = "idle"
             /\ last' = AbiErr("epoll_ctl", 0 - 1, ERROR_INVALID_PARAMETER)
             /\ UNCHANGED <<waitables, handles, apart, port, pc, cur, expect, faults>>
      [] op = EPOLL_CTL_ADD /\ event # NullEvent -> add_waitable(t, handle, event, "none")
      [] op = EPOLL_CTL_MOD /\ event # NullEvent -> modify_waitable(t, handle, event, "none")
      [] op = EPOLL_CTL_DEL -> delete_waitable(t, handle, "none")
      [] OTHER -> /\ pc[t] = "idle"
                  /\ last' = AbiErr("epoll_ctl", 0 - 1, ERROR_INVALID_PARAMETER)
                  /\ UNCHANGED <<waitables, handles, apart, port, pc, cur, expect, faults>>

\* ffi::epoll_ctl: a null Poller pointer is refused; is_socket chooses the path.
epoll_ctl(t, poller, op, handle, event) ==
    IF poller = NULL
    THEN /\ pc[t] = "idle"
         /\ last' = AbiErr("epoll_ctl", 0 - 1, ERROR_INVALID_PARAMETER)
         /\ UNCHANGED <<sources, kreg, krm, port, fixed, pc, cur, expect, faults>>
    ELSE IF handle \in Sockets
    THEN epoll_ctl_socket(t, op, handle, event)
    ELSE epoll_ctl_waitable(t, op, handle, event)

\* An epoll_create that does not look at size.
epoll_create_any(t, size, fault) ==
    /\ pc[t] = "idle"
    /\ pollers < MaxPollers
    /\ Fault(fault)
    /\ IF fault = "new"
       THEN /\ last' = AbiErr("epoll_create", NULL, ERROR_NOT_ENOUGH_MEMORY)
            /\ UNCHANGED pollers
       ELSE /\ last' = Ret("epoll_create", "Ok", 1, 0, "-", TRUE)
            /\ pollers' = pollers + 1
    /\ UNCHANGED <<sources, kreg, krm, port, keyPolicy, pc, cur, expect, waitables, call,
                   blocked, cond, handles>>

\* ffi::epoll_create, with epoll_try_create behind it: the port or the box of
\* the new Poller may fail to be made ("new").
epoll_create(t, size, fault) ==
    /\ pc[t] = "idle"
    /\ pollers < MaxPollers
    /\ Fault(fault)
    /\ IF size <= 0
       THEN /\ last' = AbiErr("epoll_create", NULL, ERROR_INVALID_PARAMETER)
            /\ UNCHANGED pollers
       ELSE IF fault = "new"
       THEN /\ last' = AbiErr("epoll_create", NULL, ERROR_NOT_ENOUGH_MEMORY)
            /\ UNCHANGED pollers
       ELSE /\ last' = Ret("epoll_create", "Ok", 1, 0, "-", TRUE)
            /\ pollers' = pollers + 1
    /\ UNCHANGED <<sources, kreg, krm, port, keyPolicy, pc, cur, expect, waitables, call,
                   blocked, cond, handles>>

\* ffi::epoll_create1
epoll_create1(t, flags, fault) ==
    /\ pc[t] = "idle"
    /\ pollers < MaxPollers
    /\ Fault(fault)
    /\ IF flags # 0
       THEN /\ last' = AbiErr("epoll_create1", NULL, ERROR_INVALID_PARAMETER)
            /\ UNCHANGED pollers
       ELSE IF fault = "new"
       THEN /\ last' = AbiErr("epoll_create1", NULL, ERROR_NOT_ENOUGH_MEMORY)
            /\ UNCHANGED pollers
       ELSE /\ last' = Ret("epoll_create1", "Ok", 1, 0, "-", TRUE)
            /\ pollers' = pollers + 1
    /\ UNCHANGED <<sources, kreg, krm, port, keyPolicy, pc, cur, expect, waitables, call,
                   blocked, cond, handles>>

\* ffi::epoll_close of a null handle, or of one of the Pollers epoll_create made.
epoll_close(t, poller) ==
    /\ pc[t] = "idle"
    /\ IF poller = NULL
       THEN /\ last' = AbiErr("epoll_close", 0 - 1, ERROR_INVALID_PARAMETER)
            /\ UNCHANGED pollers
       ELSE /\ pollers > 1
            /\ last' = Ret("epoll_close", "Ok", 0, 0, "-", TRUE)
            /\ pollers' = pollers - 1
    /\ UNCHANGED <<sources, kreg, krm, port, keyPolicy, pc, cur, expect, faults, waitables,
                   call, blocked, cond, handles>>

\* What epoll_wait left behind: the c_int it returned (n), the capacity len it
\* was called with, the length of the entries buffer it handed to wait, and
\* the number of Event slots it wrote.
AbiRet(res, n, krecv, kst, len, entries, written) ==
    [op |-> "epoll_wait", res |-> res, n |-> n, krecv |-> krecv, kst |-> kst,
     kcall |-> TRUE, len |-> len, entries |-> entries, written |-> written]

\* ffi::epoll_wait_duration, behind epoll_wait, epoll_pwait and epoll_pwait2.
\* The entries buffer is the static array whatever len is, or a vector with
\* capacity len and no element.
epoll_wait_duration(t, len, timeout, alertable) ==
    /\ pc[t] = "idle"
    /\ LET entries == IF len > STATIC_ENTRIES_COUNT THEN 0 ELSE STATIC_ENTRIES_COUNT
           k == GetQueuedCompletionStatusEx(port, entries, timeout, alertable, "none")
           r == wait_result(k.ret, k.received)
       IN  /\ k.returns
           /\ port' = Drop(port, k.received)
           /\ expect' = expect - k.received
           /\ last' = IF r.res = "Ok"
                      THEN AbiRet("Ok", r.n, k.received, k.kst, len, entries,
                                  Min(r.n, entries))
                      ELSE AbiRet("Err", 0 - 1, k.received, k.kst, len, entries, 0)
    /\ UNCHANGED <<sources, kreg, krm, fixed, pc, cur, faults>>

\* One socket driven through the C interface, with posts to the port.
NextAbi ==
    \/ \E t \in Threads, op \in {EPOLL_CTL_ADD, EPOLL_CTL_MOD, EPOLL_CTL_DEL, 0},
          e \in CtlEvents : epoll_ctl_socket(t, op, "s1", e)
    \/ \E t \in Threads : update_and_wait_for_remove(t, "none")
    \/ \E t \in Threads, len \in Capacities, to \in {"zero"} :
           epoll_wait_duration(t, len, to, FALSE)
    \/ \E t \in Threads, k \in Keys : post(t, Event({EPOLLIN}, k), "none")
    \/ KernelNotify("s1")
    \/ KernelPostRemove

SpecAbi == InitStrict /\ [][NextAbi]_vars

\* The C interface called with good and bad arguments on one socket and one
\* waitable handle.
NextAbiArgs ==
    \/ \E t \in Threads, size \in {0 - 1, 0, 1} : epoll_create(t, size, "none")
    \/ \E t \in Threads, flags \in {0, 1} : epoll_create1(t, flags, "none")
    \/ \E t \in Threads, p \in {NULL, ThePoller} : epoll_close(t, p)
    \/ \E t \in Threads, p \in {NULL, ThePoller},
          op \in {0, EPOLL_CTL_ADD, EPOLL_CTL_MOD, EPOLL_CTL_DEL, 4},
          h \in {"s1"} \cup Handles, e \in {NullEvent, Event({EPOLLIN}, 1)} :
           epoll_ctl(t, p, op, h, e)
    \/ \E t \in Threads : update_and_wait_for_remove(t, "none")
    \/ KernelPostRemove

SpecAbiArgs == InitStrict /\ [][NextAbiArgs]_vars


\* ------------------------------------------------- Event <-> completion entry

\* Bits of a 32-bit events value: the four readiness bits, the REMOVE bit, the
\* two trigger bits of the C interface, one bit no interface names, bit 30.
EventBits32 == {SOCK_NOTIFY_EVENT_IN, SOCK_NOTIFY_EVENT_OUT, SOCK_NOTIFY_EVENT_HANGUP,
                SOCK_NOTIFY_EVENT_ERR, SOCK_NOTIFY_EVENT_REMOVE, EPOLLET, 8, 1073741824}
Events32 == {Event(b, k) : b \in SUBSET EventBits32, k \in Keys}

\* impl From<&OVERLAPPED_ENTRY> for Event
from_overlapped_entry(entry) == Event(entry.bytes, entry.key)

\* Poller::post builds the completion entry of the Event drawn at the start.
post_entry ==
    /\ call.f = "event"
    /\ LET e == call.arg
           b == interest_to_events(e)
           q == post_raw(<<>>, b, e.key, NULL, Org("post", "-", b, e.key))
       IN  call' = [f |-> "entry", arg |-> e, val |-> q[1]]
    /\ UNCHANGED <<sources, kreg, krm, port, keyPolicy, pc, cur, last, expect, faults,
                   waitables, blocked, cond, pollers, handles>>

\* The entry is converted back into an Event.
event_from ==
    /\ call.f = "entry"
    /\ call' = [f |-> "from", arg |-> call.arg, val |-> from_overlapped_entry(call.val)]
    /\ UNCHANGED <<sources, kreg, krm, port, keyPolicy, pc, cur, last, expect, faults,
                   waitables, blocked, cond, pollers, handles>>

InitEvent ==
    /\ InitPoller
    /\ keyPolicy = "strict"
    /\ \E e \in Events32 : call = [f |-> "event", arg |-> e, val |-> e]

NextEvent == post_entry \/ event_from

SpecEvent == InitEvent /\ [][NextEvent]_vars


\* ------------------------------------------------------- threads that wait

\* Poller::wait with no timeout, entered by a thread of its own: the thread is
\* inside GetQueuedCompletionStatusEx with a buffer of n entries.
wait_enter(w, n) ==
    /\ blocked[w] = 0
    /\ blocked' = [blocked EXCEPT ![w] = n]
    /\ UNCHANGED <<sources, kreg, krm, port, keyPolicy, pc, cur, last, expect, faults,
                   waitables, call, cond, pollers, handles>>

\* The kernel call of a blocked wait returns with what the port holds, and the
\* wait returns.
wait_leave(w) ==
    /\ blocked[w] > 0
    /\ port # <<>>
    /\ LET k == GetQueuedCompletionStatusEx(port, blocked[w], "none", FALSE, "none")
           r == wait_result(k.ret, k.received)
       IN  /\ port' = Drop(port, k.received)
           /\ expect' = expect - k.received
           /\ last' = Ret("wait", r.res, r.n, k.received, k.kst, TRUE)
    /\ blocked' = [blocked EXCEPT ![w] = 0]
    /\ UNCHANGED <<sources, kreg, krm, keyPolicy, pc, cur, faults, waitables, call, cond, pollers, handles>>

\* Threads blocked in wait and a thread that posts.
NextWake ==
    \/ \E w \in Waiters, n \in 1..MaxBuf : wait_enter(w, n)
    \/ \E w \in Waiters : wait_leave(w)
    \/ \E t \in Threads, b \in WaitableBits, k \in Keys : post(t, Event(b, k), "none")

\* The kernel does not leave a thread blocked on a port that holds a completion.
SpecWake ==
    /\ InitStrict
    /\ [][NextWake]_vars
    /\ \A w \in Waiters : WF_vars(wait_leave(w))

\* One socket added and deleted by one thread while other threads wait.
NextRace ==
    \/ \E t \in Threads, k \in Keys :
           add(t, "s1", Event({SOCK_NOTIFY_EVENT_IN}, k), "Level", "none")
    \/ \E t \in Threads, sync \in BOOLEAN : delete(t, "s1", sync, "none")
    \/ \E t \in Threads : update_and_wait_for_remove(t, "none")
    \/ \E w \in Waiters, n \in 1..MaxBuf : wait_enter(w, n)
    \/ \E w \in Waiters : wait_leave(w)
    \/ KernelNotify("s1")
    \/ KernelPostRemove

\* The drain's thread keeps running, the kernel posts the REMOVE notifications
\* it owes and wakes blocked waiters.
SpecRace ==
    /\ InitStrict
    /\ [][NextRace]_vars
    /\ WF_vars(\E t \in Threads : update_and_wait_for_remove(t, "none"))
    /\ WF_vars(KernelPostRemove)
    /\ \A w \in Waiters : WF_vars(wait_leave(w))


\* ----------------------------------------------------------- trigger modes

\* Each mode is requested under a key of its own, so that the key of a
\* registration and of its notifications tells the mode it was requested with.
ModeKey == [m \in PollModes |->
               CASE m = "Oneshot" -> 1 [] m = "Level" -> 2 [] m = "Edge" -> 3
                 [] m = "EdgeOneshot" -> 4]
KeyMode(k) == CHOOSE m \in PollModes : ModeKey[m] = k

\* The socket's condition comes to hold, or ceases to.
KernelCondition(s) ==
    /\ cond' = [cond EXCEPT ![s] = [ready |-> ~cond[s].ready, fresh |-> ~cond[s].ready]]
    /\ UNCHANGED <<sources, kreg, krm, port, keyPolicy, pc, cur, last, expect, faults,
                   waitables, call, blocked, pollers, handles>>

\* The kernel queues a notification for an enabled registration by its
\* trigger flags: LEVEL while the condition holds and no notification of the
\* registration is waiting in the port, EDGE when the condition has come to
\* hold; ONESHOT disables the registration, PERSISTENT leaves it enabled.
KernelNotifyCond(s) ==
    /\ kreg[s].st = "active"
    /\ kreg[s].enabled
    /\ kreg[s].filter # {}
    /\ cond[s].ready
    /\ \/ "LEVEL" \in kreg[s].flags /\ Pending(port, s) = {}
       \/ "EDGE" \in kreg[s].flags /\ cond[s].fresh
    /\ Len(port) < MaxQueue
    /\ LET r == kreg[s]
           org == Org("sock", s, r.filter, r.key)
       IN  /\ port' = KPost(port, Entry(r.filter, r.key, NULL, org))
           /\ kreg' = [kreg EXCEPT ![s].enabled = ("PERSISTENT" \in r.flags)]
    /\ cond' = [cond EXCEPT ![s].fresh = FALSE]
    /\ expect' = expect + 1
    /\ UNCHANGED <<sources, krm, keyPolicy, pc, cur, last, faults, waitables, call, blocked, pollers, handles>>

\* One socket registered in each mode in turn, re-enabled by modify, with its
\* condition changing and wait dequeuing the notifications.
NextMode ==
    \/ \E t \in Threads, m \in PollModes :
           add(t, "s1", Event({SOCK_NOTIFY_EVENT_IN}, ModeKey[m]), m, "none")
    \/ \E t \in Threads, sync \in BOOLEAN :
           /\ "s1" \in DOMAIN sources
           /\ modify(t, "s1", Event({SOCK_NOTIFY_EVENT_IN}, sources["s1"]),
                     KeyMode(sources["s1"]), sync, "none")
    \/ \E t \in Threads, sync \in BOOLEAN : delete(t, "s1", sync, "none")
    \/ \E t \in Threads : update_and_wait_for_remove(t, "none")
    \/ \E t \in Threads : wait(t, MaxBuf, "zero", FALSE, "none")
    \/ KernelCondition("s1")
    \/ KernelNotifyCond("s1")
    \/ KernelPostRemove

SpecMode == InitStrict /\ [][NextMode]_vars

\* ------------------------------------------------------- timeout conversion

U32_MAX == 2 ^ TimeoutBits - 1
U64_MAX == 2 ^ DurationBits - 1
INFINITE == U32_MAX
MILLIS_PER_SEC == 1000
NANOS_PER_MILLI == 1000000
NANOS_PER_SEC == 1000000000

\* Option<u64>::None of the checked operations.
None == 0 - 1
checked_mul(a, b) == IF a > U64_MAX \div b THEN None ELSE a * b
checked_add(a, b) == IF a > U64_MAX - b THEN None ELSE a + b

\* Option<Duration>
NoDuration == [some |-> FALSE, secs |-> 0, nanos |-> 0]
Duration(secs, nanos) == [some |-> TRUE, secs |-> secs, nanos |-> nanos]

\* Duration::from_millis
from_millis(millis) ==
    Duration(millis \div MILLIS_PER_SEC, (millis % MILLIS_PER_SEC) * NANOS_PER_MILLI)

\* A dur2timeout that drops the sub-millisecond remainder.
dur2timeout_truncating(dur) ==
    LET ms1 == checked_mul(dur.secs, MILLIS_PER_SEC)
        ms2 == IF ms1 = None THEN None ELSE checked_add(ms1, dur.nanos \div NANOS_PER_MILLI)
    IN  IF ms2 = None \/ ms2 > U32_MAX THEN INFINITE ELSE ms2

dur2timeout(dur) ==
    LET ms1 == checked_mul(dur.secs, MILLIS_PER_SEC)
        ms2 == IF ms1 = None THEN None ELSE checked_add(ms1, dur.nanos \div NANOS_PER_MILLI)
        ms3 == IF ms2 = None THEN None
               ELSE IF dur.nanos % NANOS_PER_MILLI > 0 THEN checked_add(ms2, 1) ELSE ms2
        x == IF ms3 = None \/ ms3 > U32_MAX THEN None ELSE ms3
    IN  IF x = None THEN INFINITE ELSE x

\* The durations and the epoll_pwait timeouts tried: zero, the smallest, the
\* ones around a millisecond and a second, the ones around the largest
\* timeout, and the ones around the largest number of seconds that can be
\* turned into milliseconds.
DurationSecs ==
    {0, 1, 2, U32_MAX \div MILLIS_PER_SEC, U32_MAX \div MILLIS_PER_SEC + 1,
     U64_MAX \div MILLIS_PER_SEC - 1, U64_MAX \div MILLIS_PER_SEC,
     U64_MAX \div MILLIS_PER_SEC + 1, U64_MAX}
DurationNanos ==
    {0, 1, NANOS_PER_MILLI - 1, NANOS_PER_MILLI, NANOS_PER_MILLI + 1,
     ((U32_MAX % MILLIS_PER_SEC) - 1) * NANOS_PER_MILLI,
     ((U32_MAX % MILLIS_PER_SEC) - 1) * NANOS_PER_MILLI + 1,
     (U32_MAX % MILLIS_PER_SEC) * NANOS_PER_MILLI,
     (U32_MAX % MILLIS_PER_SEC) * NANOS_PER_MILLI + 1,
     (U64_MAX % MILLIS_PER_SEC) * NANOS_PER_MILLI,
     ((U64_MAX % MILLIS_PER_SEC) + 1) * NANOS_PER_MILLI,
     NANOS_PER_SEC - 1}
Durations == {Duration(secs, nanos) : secs \in DurationSecs, nanos \in DurationNanos}
PwaitTimeouts == {0 - 2, 0 - 1, 0, 1, MILLIS_PER_SEC - 1, MILLIS_PER_SEC, MILLIS_PER_SEC + 1,
                  U32_MAX - 1, U32_MAX}

\* epoll_pwait: the timeout in milliseconds becomes an Option<Duration>.
epoll_pwait_timeout ==
    /\ call.f = "epoll_pwait"
    /\ LET timeout == call.val
           millis == IF timeout < 0 THEN U64_MAX + 1 + timeout ELSE timeout
       IN  call' = [f |-> "duration",
                    arg |-> IF timeout = 0 - 1 THEN NoDuration ELSE from_millis(millis),
                    val |-> 0]
    /\ UNCHANGED <<sources, kreg, krm, port, keyPolicy, pc, cur, last, expect, faults,
                   waitables, blocked, cond, pollers, handles>>

\* Poller::wait: the timeout it hands to GetQueuedCompletionStatusEx.
wait_timeout ==
    /\ call.f = "duration"
    /\ call' = [f |-> "timeout",
                arg |-> call.arg,
                val |-> IF call.arg.some THEN dur2timeout(call.arg) ELSE INFINITE]
    /\ UNCHANGED <<sources, kreg, krm, port, keyPolicy, pc, cur, last, expect, faults,
                   waitables, blocked, cond, pollers, handles>>

InitTimeout ==
    /\ InitPoller
    /\ keyPolicy = "strict"
    /\ \/ \E d \in Durations \cup {NoDuration} : call = [f |-> "duration", arg |-> d, val |-> 0]
       \/ \E timeout \in PwaitTimeouts :
              call = [f |-> "epoll_pwait", arg |-> NoDuration, val |-> timeout]

NextTimeout == epoll_pwait_timeout \/ wait_timeout

SpecTimeout == InitTimeout /\ [][NextTimeout]_vars


NoOperation == \A t \in Threads : pc[t] = "idle"

C3_KeyMutationPreservation ==
    [][\A t \in Threads :
          /\ \A r \in Requests, sync \in BOOLEAN :
                (/\ r.s \in DOMAIN sources
                 /\ sources[r.s] # r.k
                 /\ modify(t, r.s, Event(r.b, r.k), r.m, sync, "none"))
                => \A s \in Sockets \ {r.s} :
                      Cardinality(Pending(port', s)) = Cardinality(Pending(port, s))
          /\ (/\ pc[t] = "drain"
              /\ cur[t].op = "modify"
              /\ update_and_wait_for_remove(t, "none"))
             => \A s \in Sockets \ {cur[t].sock} :
                   Cardinality(Pending(port', s)) = Cardinality(Pending(port, s))]_vars

\* C4 (as stated): with no operation in progress, the key in sources[s] is the
\* completion key of the registration the kernel holds for s.
C4_KeyConsistency ==
    NoOperation =>
        \A s \in DOMAIN sources : kreg[s].st = "active" => kreg[s].key = sources[s]

\* C5 (as stated): with no operation in progress, a socket is in sources iff
\* the kernel holds an active registration for it.
C5_RegistrationInvariant ==
    NoOperation => \A s \in Sockets : (s \in DOMAIN sources) <=> (kreg[s].st = "active")

\* C6 (as stated, for the operations that return in the step they start): an
\* add, modify or delete that returns an error leaves sources and the kernel's
\* registrations as they were.
C6_AllOrNothing ==
    [][\A t \in Threads :
          (/\ pc[t] = "idle"
           /\ pc'[t] = "idle"
           /\ last'.op \in {"add", "modify", "delete"}
           /\ last'.res = "Err"
           /\ \/ \E r \in Requests, f \in {"none", "reg"} :
                    add(t, r.s, Event(r.b, r.k), r.m, f)
              \/ \E r \in Requests, sync \in BOOLEAN,
                    f \in {"none", "reg", "call", "post", "reg2"} :
                    modify(t, r.s, Event(r.b, r.k), r.m, sync, f)
              \/ \E s \in Sockets, sync \in BOOLEAN, f \in {"none", "reg", "call", "post"} :
                    delete(t, s, sync, f))
          => UNCHANGED <<sources, kreg>>]_vars

\* C7: an add on a socket already in sources returns AlreadyExists, makes no
\* kernel call, and leaves sources, the kernel's registrations and the port
\* as they were.
C7_DuplicateAdd ==
    [][\A t \in Threads, r \in Requests :
          (r.s \in DOMAIN sources /\ add(t, r.s, Event(r.b, r.k), r.m, "none"))
          => /\ last' = Ret("add", "AlreadyExists", 0, 0, "-", FALSE)
             /\ UNCHANGED <<sources, kreg, krm, port>>]_vars

\* A duplicate add has returned, and the registration it left alone is enabled.
C7_Witness ==
    /\ last.op = "add"
    /\ last.res = "AlreadyExists"
    /\ \E s \in DOMAIN sources : kreg[s].enabled /\ kreg[s].key = sources[s]

\* C8: a delete or modify on a socket not in sources returns NotFound, makes
\* no kernel call, and leaves sources and the port as they were; and a delete
\* that returns success has taken its socket out of sources, so that a delete
\* right after it is such a call.
C8_UnregisteredSocket ==
    [][\A t \in Threads :
          /\ \A s \in Sockets, sync \in BOOLEAN :
                (s \notin DOMAIN sources /\ delete(t, s, sync, "none"))
                => /\ last' = Ret("delete", "NotFound", 0, 0, "-", FALSE)
                   /\ UNCHANGED <<sources, kreg, krm, port>>
          /\ \A r \in Requests, sync \in BOOLEAN :
                (r.s \notin DOMAIN sources /\ modify(t, r.s, Event(r.b, r.k), r.m, sync, "none"))
                => /\ last' = Ret("modify", "NotFound", 0, 0, "-", FALSE)
                   /\ UNCHANGED <<sources, kreg, krm, port>>
          /\ \A s \in Sockets, sync \in BOOLEAN :
                (/\ s \in DOMAIN sources
                 /\ delete(t, s, sync, "none")
                 /\ pc'[t] = "idle"
                 /\ last'.res = "Ok")
                => s \notin DOMAIN sources'
          /\ (/\ pc[t] = "drain"
              /\ cur[t].op = "delete"
              /\ update_and_wait_for_remove(t, "none")
              /\ pc'[t] = "idle")
             => cur[t].sock \notin DOMAIN sources']_vars

\* A delete on a socket not in sources has returned, with a completion queued.
C8_Witness ==
    /\ last.op = "delete"
    /\ last.res = "NotFound"
    /\ port # <<>>

\* C9 (as stated): a wait that dequeued completions returns Ok(k), k the
\* number dequeued, 1 <= k.
C9_WaitSuccess ==
    (last.op = "wait" /\ last.kst = "dequeued")
        => last.res = "Ok" /\ last.n = last.krecv /\ last.n >= 1

\* C10 (as stated): a wait that timed out or was interrupted by an APC
\* returns Ok(0); a wait whose kernel call failed otherwise returns an error.
C10_WaitIdle ==
    last.op = "wait" =>
        /\ last.kst \in {"timeout", "apc"} => last.res = "Ok" /\ last.n = 0
        /\ last.kst = "other" => last.res = "Err"


C19_DeleteWaitable ==
    [][\A t \in Threads, h \in Handles :
          delete_waitable(t, h, "none") =>
              IF h \in DOMAIN waitables
              THEN /\ waitables' = Del(waitables, h)
                   /\ last'.res = "Ok"
                   /\ last'.kst \in {"STATUS_SUCCESS", "STATUS_CANCELLED", "STATUS_PENDING"}
                   /\ port' = port
              ELSE /\ last'.res = "NotFound"
                   /\ UNCHANGED <<waitables, port>>]_vars

\* A delete_waitable whose cancel answered Pending returned success, and the
\* completion of the deleted handle is still in the port.
C19_Witness ==
    /\ last.op = "delete_waitable"
    /\ last.res = "Ok"
    /\ last.kst = "STATUS_PENDING"
    /\ \E h \in Handles : h \notin DOMAIN waitables /\ InFlight(port, h) # {}

\* C20: modify_waitable of a registered handle succeeds; when the cancel
\* answered Cancelled the entry keeps its packet, when it answered Pending the
\* entry gets a packet with no completion in flight; in both cases the entry's
\* packet then waits for the handle with the new interest bits, and the
\* association never fails with AlreadyAssociated.
C20_ModifyWaitablePacket ==
    [][\A t \in Threads, h \in Handles, b \in WaitableBits, k \in Keys :
          (modify_waitable(t, h, Event(b, k), "none") /\ h \in DOMAIN waitables) =>
              LET old == waitables[h].packet
                  new == waitables'[h].packet
              IN  /\ last'.res = "Ok"
                  /\ last'.kst # "AlreadyAssociated"
                  /\ last'.kst \in {"STATUS_SUCCESS", "STATUS_CANCELLED"} => new.pk = old.pk
                  /\ last'.kst = "STATUS_PENDING" =>
                         /\ new.pk # old.pk
                         /\ Fired(port', h, new.pk) = {}
                         /\ Fired(port', h, old.pk) # {}
                  /\ new.st = "waiting"
                  /\ new.info = b]_vars

\* A modify_waitable whose cancel answered Pending succeeded: the completion
\* of the old packet is in the port and the entry's packet waits.
C20_Witness ==
    /\ last.op = "modify_waitable"
    /\ last.res = "Ok"
    /\ last.kst = "STATUS_PENDING"
    /\ \E h \in DOMAIN waitables :
           /\ waitables[h].packet.st = "waiting"
           /\ InFlight(port, h) # {}
           /\ Fired(port, h, waitables[h].packet.pk) = {}


\* C16: an epoll_wait with buffer capacity len dequeues at most len
\* completions from the port, writes at most len Event slots and returns at
\* most len.
C16_AbiBufferBound ==
    last.op = "epoll_wait" =>
        /\ last.krecv <= last.len
        /\ last.written <= last.len
        /\ last.n <= last.len

\* C17: epoll_ctl ADD or MOD of a socket registers it with the trigger flags
\* of Level when the mask has neither EPOLLET nor EPOLLONESHOT, of Oneshot
\* with only EPOLLONESHOT, of Edge with only EPOLLET, of EdgeOneshot with
\* both, whatever the other bits of the mask.
C17_ModeDecoding ==
    [][\A t \in Threads, s \in Sockets, e \in CtlEvents,
          op \in {EPOLL_CTL_ADD, EPOLL_CTL_MOD} :
          (/\ epoll_ctl_socket(t, op, s, e)
           /\ last'.res = "Ok"
           /\ pc'[t] = "idle")
              => kreg'[s].flags =
                     mode_to_flags(
                         IF EPOLLET \in e.events
                         THEN IF EPOLLONESHOT \in e.events THEN "EdgeOneshot" ELSE "Edge"
                         ELSE IF EPOLLONESHOT \in e.events THEN "Oneshot" ELSE "Level")]_vars

\* A socket was added with both trigger bits and a second readiness bit.
C17_Witness ==
    /\ last.op = "add"
    /\ last.res = "Ok"
    /\ "s1" \in DOMAIN sources
    /\ kreg["s1"].flags = mode_to_flags("EdgeOneshot")
    /\ kreg["s1"].filter = {EPOLLIN, EPOLLOUT}


\* C13 as stated: an Event with any 32-bit events value and any key, posted
\* and converted back from the completion entry, is the same (events, key).
C13_RoundTripAny == call.f = "from" => call.val = call.arg

\* C13: an Event posted and converted back from the completion entry has the
\* same key and the readiness bits (readable, writable, hangup, error) of its
\* events value; so an Event made of readiness bits only comes back the same.
C13_RoundTrip ==
    call.f = "from" =>
        /\ call.val.key = call.arg.key
        /\ call.val.events =
               call.arg.events \cap {SOCK_NOTIFY_EVENT_IN, SOCK_NOTIFY_EVENT_OUT,
                                     SOCK_NOTIFY_EVENT_HANGUP, SOCK_NOTIFY_EVENT_ERR}
        /\ call.arg.events \subseteq {SOCK_NOTIFY_EVENT_IN, SOCK_NOTIFY_EVENT_OUT,
                                      SOCK_NOTIFY_EVENT_HANGUP, SOCK_NOTIFY_EVENT_ERR}
               => call.val = call.arg

\* An Event with the error bit and a second key has made the round trip.
C13_Witness ==
    /\ call.f = "from"
    /\ call.arg = Event({SOCK_NOTIFY_EVENT_IN, SOCK_NOTIFY_EVENT_ERR}, 2)
    /\ call.val = call.arg


\* C12: when a post has succeeded while a thread is blocked in a wait with no
\* timeout, a blocked wait eventually returns with the completion; and every
\* completion born is either still in the port or was dequeued by one wait.
C12_PostWakesWaiter ==
    /\ (last.op = "post" /\ last.res = "Ok" /\ \E w \in Waiters : blocked[w] > 0)
           ~> (last.op = "wait" /\ last.krecv >= 1)
    /\ [](expect = Len(port))
    /\ [][\A w \in Waiters :
            (blocked[w] > 0 /\ blocked'[w] = 0)
                => /\ last'.krecv >= 1
                   /\ Len(port') = Len(port) - last'.krecv]_vars

\* Two threads were blocked, one post was made, and one of the waits has
\* returned with the completion while the other is still blocked.
C12_Witness ==
    /\ last.op = "wait"
    /\ last.krecv = 1
    /\ port = <<>>
    /\ blocked["w1"] = 0
    /\ blocked["w2"] > 0

\* C14: a delete running while other threads wait eventually returns.
C14_MutationReturns ==
    \A t \in Threads : (pc[t] = "drain") ~> (pc[t] = "idle")


C21_WaitableAssociation ==
    \A h \in DOMAIN waitables : waitables[h].packet.st \in {"waiting", "fired"}


\* C22: epoll_create with size <= 0, epoll_create1 with flags # 0, epoll_close
\* of a null handle, and epoll_ctl with an op that is not ADD, MOD or DEL or
\* with a null event pointer on ADD or MOD, fail (null / -1) with last-error
\* ERROR_INVALID_PARAMETER, make no Poller and leave the registrations alone.
C22_AbiArgumentErrors ==
    [][\A t \in Threads :
          (\/ \E size \in {0 - 1, 0} : epoll_create(t, size, "none")
           \/ epoll_create1(t, 1, "none")
           \/ epoll_close(t, NULL)
           \/ \E op \in {0, 4}, h \in {"s1"} \cup Handles,
                 e \in {NullEvent, Event({EPOLLIN}, 1)} : epoll_ctl(t, ThePoller, op, h, e)
           \/ \E op \in {EPOLL_CTL_ADD, EPOLL_CTL_MOD}, h \in {"s1"} \cup Handles :
                 epoll_ctl(t, ThePoller, op, h, NullEvent))
              => /\ last'.res = "Err"
                 /\ last'.err = ERROR_INVALID_PARAMETER
                 /\ last'.n = IF last'.op = "epoll_ctl" \/ last'.op = "epoll_close"
                              THEN 0 - 1 ELSE NULL
                 /\ UNCHANGED <<pollers, sources, kreg, krm, waitables, port>>]_vars

\* An epoll_ctl with a bad argument has failed with ERROR_INVALID_PARAMETER
\* while a socket and a waitable handle are registered and a second Poller
\* exists.
C22_Witness ==
    /\ last.op = "epoll_ctl"
    /\ last.res = "Err"
    /\ last.n = 0 - 1
    /\ "s1" \in DOMAIN sources
    /\ "h1" \in DOMAIN waitables
    /\ pollers = 2


\* C23: no step of a delete or a modify, its first call or a turn of its
\* drain, takes out of the port a completion that a post put there, whatever
\* key it carries.
C23_DrainDiscardsOwnOnly ==
    [][\A t \in Threads :
          (\/ \E s \in Sockets, sync \in BOOLEAN : delete(t, s, sync, "none")
           \/ \E r \in Requests, sync \in BOOLEAN :
                 modify(t, r.s, Event(r.b, r.k), r.m, sync, "none")
           \/ pc[t] = "drain" /\ update_and_wait_for_remove(t, "none"))
              => Cardinality({i \in 1..Len(port') : port'[i].org.src = "post"})
                     = Cardinality({i \in 1..Len(port) : port[i].org.src = "post"})]_vars


\* C24: when the REMOVE request of a delete or of a key-changing modify fails
\* (the registration's result, or the whole call), the call returns the error
\* at once, and the port holds the same completions as before, each as many
\* times; the kernel's registrations are as they were.
C24_DrainErrorPath ==
    [][\A t \in Threads, f \in {"none", "reg", "call"} :
          (/\ \/ \E sync \in BOOLEAN : delete(t, "s1", sync, f)
              \/ \E r \in RequestsFault, sync \in BOOLEAN :
                    /\ r.s \in DOMAIN sources
                    /\ sources[r.s] # r.k
                    /\ modify(t, r.s, Event(r.b, r.k), r.m, sync, f)
           /\ pc'[t] = "idle"
           /\ last'.res = "Err")
              => /\ last'.kcall
                 /\ Len(port') = Len(port)
                 /\ \A i \in 1..Len(port) :
                        Cardinality({j \in 1..Len(port') : port'[j] = port[i]})
                            = Cardinality({j \in 1..Len(port) : port[j] = port[i]})
                 /\ UNCHANGED <<kreg, krm>>]_vars

\* A delete whose REMOVE request the kernel refused has returned the error
\* with two completions in the port.
C24_Witness ==
    /\ last.op = "delete"
    /\ last.res = "Err"
    /\ last.kcall
    /\ Len(port) = 2
    /\ port[1] # port[2]
    /\ \A t \in Threads : pc[t] = "idle"


\* C25 as stated: an add or a modify that the kernel accepted leaves the
\* registration enabled exactly when one of the readable, writable, hangup or
\* error bits is set in the interest.
C25_EnableOnAnyBit ==
    [][\A t \in Threads, e \in RegistrationInterests :
          (/\ \/ add(t, "s1", e, "Level", "none")
              \/ \E sync \in BOOLEAN : modify(t, "s1", e, "Level", sync, "none")
           /\ pc'[t] = "idle"
           /\ last'.res = "Ok")
              => kreg'["s1"].enabled
                   = (e.events \cap {SOCK_NOTIFY_EVENT_IN, SOCK_NOTIFY_EVENT_OUT,
                                     SOCK_NOTIFY_EVENT_HANGUP, SOCK_NOTIFY_EVENT_ERR} # {})]_vars

\* C25: an add or a modify that the kernel accepted leaves the registration
\* enabled exactly when one of the readable, writable or hangup bits is set in
\* the interest (the error bit alone disables), and never enabled with an
\* empty filter; a modify that finishes in the drain does the same with the
\* interest it was given; a delete that succeeded, and the first step of a
\* key-changing modify that goes on to the drain, leave no registration.
C25_OperationCode ==
    [][\A t \in Threads :
          /\ \A e \in RegistrationInterests :
                (/\ \/ add(t, "s1", e, "Level", "none")
                    \/ \E sync \in BOOLEAN : modify(t, "s1", e, "Level", sync, "none")
                 /\ pc'[t] = "idle"
                 /\ last'.res = "Ok")
                    => /\ kreg'["s1"].enabled
                           = (\/ SOCK_NOTIFY_EVENT_IN \in e.events
                              \/ SOCK_NOTIFY_EVENT_OUT \in e.events
                              \/ SOCK_NOTIFY_EVENT_HANGUP \in e.events)
                       /\ kreg'["s1"].st = "active"
                       /\ kreg'["s1"].enabled => kreg'["s1"].filter # {}
          /\ (/\ pc[t] = "drain"
              /\ cur[t].op = "modify"
              /\ update_and_wait_for_remove(t, "none")
              /\ pc'[t] = "idle"
              /\ last'.res = "Ok")
                 => /\ kreg'["s1"].enabled
                        = (cur[t].events \cap {SOCK_NOTIFY_EVENT_IN, SOCK_NOTIFY_EVENT_OUT,
                                               SOCK_NOTIFY_EVENT_HANGUP} # {})
                    /\ kreg'["s1"].enabled => kreg'["s1"].filter # {}
          /\ (/\ \/ \E sync \in BOOLEAN : delete(t, "s1", sync, "none")
                 \/ \E e \in RegistrationInterests, sync \in BOOLEAN :
                       modify(t, "s1", e, "Level", sync, "none")
              /\ \/ pc'[t] = "drain"
                 \/ last'.op = "delete" /\ last'.res = "Ok")
                 => kreg'["s1"] = NoReg]_vars

\* An add with the error bit alone has been accepted and left the
\* registration disabled.
C25_Witness ==
    /\ last.op = "add"
    /\ last.res = "Ok"
    /\ kreg["s1"].st = "active"
    /\ kreg["s1"].key = 2
    /\ kreg["s1"].filter = {}
    /\ ~kreg["s1"].enabled


\* C26: the timeout wait hands to the kernel fits the kernel's width; it is
\* the indefinite wait for a missing Duration; for a Duration d it is 0
\* exactly when d is zero, it is the indefinite wait or at least d, and it is
\* the indefinite wait whenever d is longer than the largest timeout.
C26_TimeoutConversion ==
    call.f = "timeout" =>
        LET d == call.arg
            ms == call.val
        IN  /\ ms \in 0..U32_MAX
            /\ ~d.some => ms = INFINITE
            /\ d.some =>
                 /\ (ms = 0) = (d.secs = 0 /\ d.nanos = 0)
                 /\ \/ ms = INFINITE
                    \/ d.secs < ms \div MILLIS_PER_SEC
                    \/ /\ d.secs = ms \div MILLIS_PER_SEC
                       /\ d.nanos <= (ms % MILLIS_PER_SEC) * NANOS_PER_MILLI
                 /\ (\/ d.secs > U32_MAX \div MILLIS_PER_SEC
                     \/ /\ d.secs = U32_MAX \div MILLIS_PER_SEC
                        /\ d.nanos > (U32_MAX % MILLIS_PER_SEC) * NANOS_PER_MILLI)
                       => ms = INFINITE

\* A Duration of one nanosecond has become a timeout of one millisecond.
C26_Witness ==
    /\ call.f = "timeout"
    /\ call.arg = Duration(0, 1)
    /\ call.val = 1


\* C27: once modify_waitable has installed an interest for a handle, a wait
\* dequeues no completion of that handle under the entry's key with other
\* bits than those of the installed interest.
C27_NoStaleWaitableEvent ==
    [][\A t \in Threads, n \in 1..MaxBuf :
          wait(t, n, "zero", FALSE, "none")
             => \A i \in 1..last'.krecv :
                    (/\ port[i].org.src = "wait"
                     /\ port[i].org.s \in DOMAIN waitables
                     /\ waitables[port[i].org.s].by = "modify"
                     /\ port[i].key = waitables[port[i].org.s].key)
                        => port[i].bytes
                             = interest_to_events(waitables[port[i].org.s].interest)]_vars


\* C28: while the Poller lives, the wait completion packets open are as many
\* as the entries of waitables; once it is dropped, none is open, nor is the
\* port.
C28_PacketOwnership ==
    IF handles.port
    THEN handles.packets = Cardinality(DOMAIN waitables)
    ELSE handles.packets = 0 /\ DOMAIN waitables = {}

\* A Poller has been dropped after a modify_waitable that replaced the packet
\* of its entry.
C28_Witness ==
    /\ ~handles.port
    /\ last.op = "modify_waitable"
    /\ last.res = "Ok"
    /\ last.kst = "STATUS_PENDING"


\* C29: a delete of a socket that is in sources and registered with the
\* kernel, a modify having changed its key, does not return an error: it
\* returns Ok at once or goes on to drain for the REMOVE completion.
C29_DeleteAfterKeyChange ==
    [][\A t \in Threads, sync \in BOOLEAN :
          (/\ "s1" \in DOMAIN sources
           /\ kreg["s1"].st = "active"
           /\ last.op = "modify"
           /\ last.res = "Ok"
           /\ delete(t, "s1", sync, "none"))
              => \/ pc'[t] = "drain"
                 \/ last'.op = "delete" /\ last'.res = "Ok"]_vars


\* C30: add_waitable stores the key of its Event; while the handle stays in
\* waitables no step changes the stored key, whatever the key of the Event
\* given to modify_waitable; a packet that modify_waitable associated waits
\* under the stored key; and the completion the kernel queues for the handle
\* carries the stored key.
C30_WaitableKeyFixed ==
    [][\A h \in Handles :
          /\ (h \in DOMAIN waitables /\ h \in DOMAIN waitables')
                => waitables'[h].key = waitables[h].key
          /\ (h \notin DOMAIN waitables /\ h \in DOMAIN waitables')
                => /\ waitables'[h].by = "add"
                   /\ waitables'[h].key = waitables'[h].interest.key
                   /\ waitables'[h].packet.key = waitables'[h].key
          /\ (/\ h \in DOMAIN waitables
              /\ h \in DOMAIN waitables'
              /\ waitables'[h].packet # waitables[h].packet
              /\ waitables'[h].packet.st = "waiting")
                => /\ waitables'[h].by = "modify"
                   /\ waitables'[h].packet.key = waitables[h].key
          /\ (/\ Len(port') = Len(port) + 1
              /\ port'[Len(port')].org.src = "wait"
              /\ port'[Len(port')].org.s = h)
                => /\ h \in DOMAIN waitables
                   /\ port'[Len(port')].key = waitables[h].key]_vars

\* A modify_waitable was given an Event with another key than the stored one,
\* and the completion of the packet it associated is in the port under the
\* stored key.
C30_Witness ==
    /\ "h1" \in DOMAIN waitables
    /\ waitables["h1"].by = "modify"
    /\ waitables["h1"].interest.key # waitables["h1"].key
    /\ waitables["h1"].packet.st = "fired"
    /\ \E i \in 1..Len(port) :
          /\ port[i].org.src = "wait"
          /\ port[i].org.pk = waitables["h1"].packet.pk
          /\ port[i].bytes = interest_to_events(waitables["h1"].interest)
          /\ port[i].key = waitables["h1"].key


\* C31: of two threads that modify one socket to new keys, the second comes
\* out of the drain it went into while the REMOVE completion of the
\* registration the first one's modify made was in the port or owed.
C31_ConcurrentModifyReturns ==
    []((/\ pc["t2"] = "drain"
        /\ cur["t2"].op = "modify"
        /\ \/ \E i \in 1..Len(port) : /\ port[i].key = ModifyKey("t1")
                                      /\ SOCK_NOTIFY_EVENT_REMOVE \in port[i].bytes
           \/ \E note \in krm : note.key = ModifyKey("t1"))
          => <>(pc["t2"] = "idle"))


\* C32: of two threads that drain at once for different keys, the REMOVE
\* completion of each being in the port or owed by the kernel, each comes out
\* of its drain.
C32_ConcurrentDeletesReturn ==
    \A t \in Mutators :
        []((/\ \A u \in Mutators :
                  /\ pc[u] = "drain"
                  /\ cur[u].op = "delete"
                  /\ \/ \E i \in 1..Len(port) : /\ port[i].key = cur[u].key
                                                /\ SOCK_NOTIFY_EVENT_REMOVE \in port[i].bytes
                     \/ \E note \in krm : note.key = cur[u].key
            /\ cur["t1"].key # cur["t2"].key)
              => <>(pc[t] = "idle"))

====
